---- MODULE Spec2Model ----
\* Model of generate_ecash_pdf.py: the command line pipeline that reads ecash
\* notes, produces one QR image per note with external tools, typesets them
\* four to a page and compiles the result with pdflatex.
EXTENDS Integers, Sequences, FiniteSets, TLC

VARIABLES
    args,         \* argparse namespace (qr_error_correction is overwritten by main)
    cli_level,    \* the --qr-error-correction value as parsed, before main touches it
    csv_lines,    \* the lines of the CSV file, each a tuple of characters
    files,        \* paths that exist in the current directory
    qr_fs,        \* paths that exist in the QR code directory
    dir_made,     \* qr_dir.mkdir has been called
    pc,           \* position of main / generate_qr_code / compile_latex
    notes,        \* the list read at line 303
    i,            \* enumerate(notes, 1) index of the note being processed
    qr_files,     \* the list handed to generate_latex
    results,      \* return values of generate_qr_code, one per processed note
    cur,          \* exit status of each tool run for note i, and the return value
    levels_used,  \* the -l values qrencode has been started with
    tools_run,    \* names of the external tools started so far
    notice,       \* the "Note: Using error correction level H" line was printed
    warnings,     \* images reported by the two "Warning:" lines
    content,      \* the text written to the .tex file, as a sequence of items
    pass_rc,      \* outcome of each pdflatex pass run by compile_latex
    compile_ok,   \* return value of compile_latex
    moved,        \* shutil.move was called
    cleaned,      \* the .aux/.log removal loop ran
    exit_code     \* process exit status

vars == <<args, cli_level, csv_lines, files, qr_fs, dir_made, pc, notes, i,
          qr_files, results, cur, levels_used, tools_run, notice, warnings,
          content, pass_rc, compile_ok, moved, cleaned, exit_code>>

----------------------------------------------------------------------------
\* Bounds of the model.

MaxLines == 3
MaxArtifacts == 6

----------------------------------------------------------------------------
\* Program constants.

notes_per_page == 4
csv_file == "notes.csv"
tex_file == "ecash_notes.tex"
pdf_path == "ecash_notes.pdf"
aux_file == "ecash_notes.aux"
log_file == "ecash_notes.log"
icon_path == "icon.png"
other_output == "out.pdf"
NoIcon == ""
Levels == {"L", "M", "Q", "H"}

\* An external tool run either exits 0, exits non-zero, or the call raises
\* (tool missing, unparsable output).
Outcomes == {"ok", "fail", "raise"}

Whitespace == {" ", "\n"}
BlankLine == <<" ", "\n">>
TokenLine == <<" ", "x", " ", "\n">>

Truthy(s) == s # NoIcon

Min(a, b) == IF a < b THEN a ELSE b

----------------------------------------------------------------------------
\* str.strip() and the list comprehension of line 303.

RECURSIVE LStrip(_)
LStrip(s) ==
    IF s # <<>> /\ Head(s) \in Whitespace THEN LStrip(Tail(s)) ELSE s

RECURSIVE RStrip(_)
RStrip(s) ==
    IF s # <<>> /\ s[Len(s)] \in Whitespace
    THEN RStrip(SubSeq(s, 1, Len(s) - 1))
    ELSE s

Strip(s) == RStrip(LStrip(s))

RECURSIVE ReadNotesFrom(_)
ReadNotesFrom(ls) ==
    IF ls = <<>> THEN <<>>
    ELSE IF Strip(Head(ls)) # <<>>
         THEN <<Strip(Head(ls))>> \o ReadNotesFrom(Tail(ls))
         ELSE ReadNotesFrom(Tail(ls))

----------------------------------------------------------------------------
\* f"ecash_{i:04d}.png" and the paths derived from it.

RECURSIVE Digits(_)
Digits(n) == IF n < 10 THEN <<n>> ELSE Digits(n \div 10) \o <<n % 10>>

RECURSIVE PadLeft(_, _)
PadLeft(s, w) == IF Len(s) >= w THEN s ELSE PadLeft(<<0>> \o s, w)

Format04d(n) == PadLeft(Digits(n), 4)

qr_filename_renumbered(n) ==
    [prefix |-> "ecash_", digits |-> Format04d(Len(qr_files) + 1), ext |-> ".png"]

qr_filename(n) ==
    [prefix |-> "ecash_", digits |-> Format04d(n), ext |-> ".png"]

qr_path(n) == [dir |-> args.qr_dir, name |-> qr_filename(n)]

temp_qr(output_file) ==
    [output_file EXCEPT !.name.ext = output_file.name.ext \o ".temp.png"]

----------------------------------------------------------------------------
\* main, lines 273-276: the error correction level actually used.

EffectiveLevelAnyIcon(icon, level) ==
    IF Truthy(icon) THEN "H" ELSE level

EffectiveLevel(icon, level) ==
    IF Truthy(icon) /\ level = "M" THEN "H" ELSE level

UpgradeNotice(icon, level) == Truthy(icon) /\ level = "M"

----------------------------------------------------------------------------
\* generate_latex, lines 180-229.  The document text is kept as the sequence
\* of the pieces the function appends to `content`.

Preamble == [kind |-> "preamble"]
PageHeader(side, num) == [kind |-> "page", side |-> side, num |-> num]
BeginPicture == [kind |-> "begin"]
EndPicture == [kind |-> "end"]
NewPage == [kind |-> "newpage"]
EndDocument == [kind |-> "enddocument"]

FrontAnchor == "north west"
BackAnchor == "north east"

\* shift is the multiple of \imgheight the node is moved down by (0 for the
\* first node of a page).
FrontNode(k, front_image, qr) ==
    [kind |-> "node", cmd |-> "overlayimage", anchor |-> FrontAnchor,
     shift |-> k, image |-> front_image, qr |-> qr]

BackNode(k, back_image) ==
    [kind |-> "node", cmd |-> "backimage", anchor |-> BackAnchor,
     shift |-> k, image |-> back_image]

num_pages_extra(n) == n \div notes_per_page + 1

num_pages(n) == (n + notes_per_page - 1) \div notes_per_page

start_idx_overlap(page_idx) == page_idx * (notes_per_page - 1)

start_idx(page_idx) == page_idx * notes_per_page

end_idx(start, n) == Min(start + notes_per_page, n)

\* for i, note_idx in enumerate(range(start_idx, end_idx)), lines 194-203
FrontNodes(files_, front_image, start, end) ==
    [k \in 1..(end - start) |-> FrontNode(k - 1, front_image, files_[start + k])]

\* for i in range(end_idx - start_idx), lines 213-222
BackNodes(back_image, start, end) ==
    [k \in 1..(end - start) |-> BackNode(k - 1, back_image)]

LatexPage(files_, front_image, back_image, page_idx) ==
    LET start == start_idx(page_idx)
        end   == end_idx(start, Len(files_))
    IN  <<PageHeader("FRONT", page_idx * 2 + 1), BeginPicture>>
        \o FrontNodes(files_, front_image, start, end)
        \o <<EndPicture, NewPage>>
        \o <<PageHeader("BACK", page_idx * 2 + 2), BeginPicture>>
        \o BackNodes(back_image, start, end)
        \o <<EndPicture>>
        \o (IF page_idx < num_pages(Len(files_)) - 1 THEN <<NewPage>> ELSE <<>>)

RECURSIVE LatexPages(_, _, _, _)
LatexPages(files_, front_image, back_image, page_idx) ==
    IF page_idx >= num_pages(Len(files_)) THEN <<>>
    ELSE LatexPage(files_, front_image, back_image, page_idx)
         \o LatexPages(files_, front_image, back_image, page_idx + 1)

generate_latex(files_, front_image, back_image) ==
    <<Preamble>> \o LatexPages(files_, front_image, back_image, 0)
    \o <<EndDocument>>

----------------------------------------------------------------------------
\* Initial states: the command line, the files present and the CSV content.

NoCalls ==
    [qr |-> "none", magick |-> "none", identify |-> "none",
     overlay |-> "none", ret |-> FALSE]

RECURSIVE SeqsUpTo(_, _)
SeqsUpTo(S, n) ==
    IF n = 0 THEN {<<>>}
    ELSE LET shorter == SeqsUpTo(S, n - 1)
         IN  shorter \cup {Append(s, x) : s \in shorter, x \in S}

ArgSpace ==
    [qr_icon : {NoIcon, icon_path},
     qr_error_correction : Levels,
     output : {pdf_path, other_output},
     front_image : {"front.png"},
     back_image : {"back.png"},
     qr_dir : {"qr_codes"}]

\* Files that may or may not exist when main starts.  The icon file and the
\* CSV content only matter when an icon is requested / the CSV exists.
InputFiles(a) ==
    {csv_file, a.front_image, a.back_image}
    \cup (IF Truthy(a.qr_icon) THEN {a.qr_icon} ELSE {})

Init ==
    /\ args \in ArgSpace
    /\ cli_level = args.qr_error_correction
    /\ files \in SUBSET InputFiles(args)
    /\ csv_lines \in (IF csv_file \in files
                      THEN SeqsUpTo({BlankLine, TokenLine}, MaxLines)
                      ELSE {<<>>})
    /\ qr_fs = {}
    /\ dir_made = FALSE
    /\ pc = "parse"
    /\ notes = <<>>
    /\ i = 0
    /\ qr_files = <<>>
    /\ results = <<>>
    /\ cur = NoCalls
    /\ levels_used = {}
    /\ tools_run = {}
    /\ notice = FALSE
    /\ warnings = {}
    /\ content = <<>>
    /\ pass_rc = <<>>
    /\ compile_ok = FALSE
    /\ moved = FALSE
    /\ cleaned = FALSE
    /\ exit_code = 0

\* sys.exit(code)
Exit(code) ==
    /\ pc' = "done"
    /\ exit_code' = code

----------------------------------------------------------------------------
\* main, lines 273-305.

ParseArgs ==
    /\ pc = "parse"
    /\ args' = [args EXCEPT !.qr_error_correction =
                   EffectiveLevel(args.qr_icon, args.qr_error_correction)]
    /\ notice' = UpgradeNotice(args.qr_icon, args.qr_error_correction)
    /\ pc' = "check_csv"
    /\ UNCHANGED <<cli_level, csv_lines, files, qr_fs, dir_made, notes, i,
                   qr_files, results, cur, levels_used, tools_run, warnings,
                   content, pass_rc, compile_ok, moved, cleaned, exit_code>>

CheckCsvAfterMkdir ==
    /\ pc = "check_csv"
    /\ dir_made' = TRUE
    /\ IF csv_file \notin files THEN Exit(1)
       ELSE pc' = "check_icon" /\ UNCHANGED exit_code
    /\ UNCHANGED <<args, cli_level, csv_lines, files, qr_fs, notes, i,
                   qr_files, results, cur, levels_used, tools_run, notice,
                   warnings, content, pass_rc, compile_ok, moved, cleaned>>

CheckCsv ==
    /\ pc = "check_csv"
    /\ IF csv_file \notin files THEN Exit(1)
       ELSE pc' = "check_icon" /\ UNCHANGED exit_code
    /\ UNCHANGED <<args, cli_level, csv_lines, files, qr_fs, dir_made, notes,
                   i, qr_files, results, cur, levels_used, tools_run, notice,
                   warnings, content, pass_rc, compile_ok, moved, cleaned>>

CheckIcon ==
    /\ pc = "check_icon"
    /\ IF Truthy(args.qr_icon) /\ args.qr_icon \notin files THEN Exit(1)
       ELSE pc' = "check_images" /\ UNCHANGED exit_code
    /\ UNCHANGED <<args, cli_level, csv_lines, files, qr_fs, dir_made, notes,
                   i, qr_files, results, cur, levels_used, tools_run, notice,
                   warnings, content, pass_rc, compile_ok, moved, cleaned>>

CheckImagesFatal ==
    /\ pc = "check_images"
    /\ warnings' = {img \in {args.front_image, args.back_image} : img \notin files}
    /\ IF warnings' # {} THEN Exit(1)
       ELSE pc' = "mkdir" /\ UNCHANGED exit_code
    /\ UNCHANGED <<args, cli_level, csv_lines, files, qr_fs, dir_made, notes,
                   i, qr_files, results, cur, levels_used, tools_run, notice,
                   content, pass_rc, compile_ok, moved, cleaned>>

CheckImages ==
    /\ pc = "check_images"
    /\ warnings' = {img \in {args.front_image, args.back_image} : img \notin files}
    /\ pc' = "mkdir"
    /\ UNCHANGED <<args, cli_level, csv_lines, files, qr_fs, dir_made, notes,
                   i, qr_files, results, cur, levels_used, tools_run, notice,
                   content, pass_rc, compile_ok, moved, cleaned, exit_code>>

Mkdir ==
    /\ pc = "mkdir"
    /\ dir_made' = TRUE
    /\ pc' = "read"
    /\ UNCHANGED <<args, cli_level, csv_lines, files, qr_fs, notes, i,
                   qr_files, results, cur, levels_used, tools_run, notice,
                   warnings, content, pass_rc, compile_ok, moved, cleaned,
                   exit_code>>

ReadNotes ==
    /\ pc = "read"
    /\ notes' = ReadNotesFrom(csv_lines)
    /\ pc' = "loop"
    /\ UNCHANGED <<args, cli_level, csv_lines, files, qr_fs, dir_made, i,
                   qr_files, results, cur, levels_used, tools_run, notice,
                   warnings, content, pass_rc, compile_ok, moved, cleaned,
                   exit_code>>

----------------------------------------------------------------------------
\* main, lines 307-316: the loop over the notes, and generate_qr_code,
\* lines 21-104, one action per external tool it runs.

\* Next iteration of `for i, note in enumerate(notes, 1)`, or the loop's end.
LoopNext ==
    /\ pc = "loop"
    /\ IF i < Len(notes)
       THEN /\ i' = i + 1
            /\ cur' = NoCalls
            /\ pc' = "qrencode"
       ELSE /\ pc' = "check_files"
            /\ UNCHANGED <<i, cur>>
    /\ UNCHANGED <<args, cli_level, csv_lines, files, qr_fs, dir_made, notes,
                   qr_files, results, levels_used, tools_run, notice,
                   warnings, content, pass_rc, compile_ok, moved, cleaned,
                   exit_code>>

\* Lines 24-28: Popen(['qrencode', '-l', error_correction, ...]).  The exit
\* status of the process is fixed here but never read by the function.
Qrencode ==
    /\ pc = "qrencode"
    /\ \E o \in Outcomes :
         /\ cur' = [cur EXCEPT !.qr = o]
         /\ pc' = IF o = "raise" THEN "qr_return" ELSE "magick"
    /\ levels_used' = levels_used \cup {args.qr_error_correction}
    /\ tools_run' = tools_run \cup {"qrencode"}
    /\ UNCHANGED <<args, cli_level, csv_lines, files, qr_fs, dir_made, notes,
                   i, qr_files, results, notice, warnings, content, pass_rc,
                   compile_ok, moved, cleaned, exit_code>>

\* Lines 30-45: with an icon, magick writes the transparent code to temp_qr.
\* A run that exits 0 has written its output file; one that fails has not.
MagickTemp ==
    /\ pc = "magick"
    /\ Truthy(args.qr_icon)
    /\ \E o \in Outcomes :
         /\ cur' = [cur EXCEPT !.magick = o]
         /\ IF o = "ok"
            THEN /\ qr_fs' = qr_fs \cup {temp_qr(qr_path(i))}
                 /\ pc' = "identify"
            ELSE /\ pc' = "qr_return"
                 /\ UNCHANGED qr_fs
    /\ tools_run' = tools_run \cup {"magick"}
    /\ UNCHANGED <<args, cli_level, csv_lines, files, dir_made, notes, i,
                   qr_files, results, levels_used, notice, warnings, content,
                   pass_rc, compile_ok, moved, cleaned, exit_code>>

\* Lines 86-101: without an icon, magick writes output_file directly.
MagickPlain ==
    /\ pc = "magick"
    /\ ~Truthy(args.qr_icon)
    /\ \E o \in Outcomes :
         /\ cur' = [cur EXCEPT !.magick = o, !.ret = (o = "ok")]
         /\ qr_fs' = IF o = "ok" THEN qr_fs \cup {qr_path(i)} ELSE qr_fs
    /\ pc' = "qr_return"
    /\ tools_run' = tools_run \cup {"magick"}
    /\ UNCHANGED <<args, cli_level, csv_lines, files, dir_made, notes, i,
                   qr_files, results, levels_used, notice, warnings, content,
                   pass_rc, compile_ok, moved, cleaned, exit_code>>

\* Lines 49-60: identify -format %w temp_qr.  "raise" covers subprocess.run
\* raising and int() rejecting the output; both reach the except clause.
Identify ==
    /\ pc = "identify"
    /\ \E o \in Outcomes :
         /\ cur' = [cur EXCEPT !.identify = o]
         /\ pc' = IF o = "ok" THEN "overlay" ELSE "qr_return"
    /\ tools_run' = tools_run \cup {"identify"}
    /\ UNCHANGED <<args, cli_level, csv_lines, files, qr_fs, dir_made, notes,
                   i, qr_files, results, levels_used, notice, warnings,
                   content, pass_rc, compile_ok, moved, cleaned, exit_code>>

\* Lines 64-85: the overlay run, then the removal of temp_qr, then the check
\* of the overlay's exit status.  A raising run skips the removal.
Overlay ==
    /\ pc = "overlay"
    /\ \E o \in Outcomes :
         /\ cur' = [cur EXCEPT !.overlay = o, !.ret = (o = "ok")]
         /\ qr_fs' = CASE o = "ok"    -> (qr_fs \ {temp_qr(qr_path(i))})
                                          \cup {qr_path(i)}
                       [] o = "fail"  -> qr_fs \ {temp_qr(qr_path(i))}
                       [] o = "raise" -> qr_fs
    /\ pc' = "qr_return"
    /\ tools_run' = tools_run \cup {"magick"}
    /\ UNCHANGED <<args, cli_level, csv_lines, files, dir_made, notes, i,
                   qr_files, results, levels_used, notice, warnings, content,
                   pass_rc, compile_ok, moved, cleaned, exit_code>>

\* Lines 312-316: the caller appends the path when the function returned True.
QrReturn ==
    /\ pc = "qr_return"
    /\ results' = Append(results, cur.ret)
    /\ qr_files' = IF cur.ret THEN Append(qr_files, qr_path(i)) ELSE qr_files
    /\ pc' = "loop"
    /\ UNCHANGED <<args, cli_level, csv_lines, files, qr_fs, dir_made, notes,
                   i, cur, levels_used, tools_run, notice, warnings, content,
                   pass_rc, compile_ok, moved, cleaned, exit_code>>

----------------------------------------------------------------------------
\* main, lines 318-328.

NoQrFilesIfNoNotes(qf) == notes = <<>>

\* `not qr_files`
NoQrFiles(qf) == qf = <<>>

CheckFiles ==
    /\ pc = "check_files"
    /\ IF NoQrFiles(qr_files) THEN Exit(1)
       ELSE pc' = "latex" /\ UNCHANGED exit_code
    /\ UNCHANGED <<args, cli_level, csv_lines, files, qr_fs, dir_made, notes,
                   i, qr_files, results, cur, levels_used, tools_run, notice,
                   warnings, content, pass_rc, compile_ok, moved, cleaned>>

GenerateLatex ==
    /\ pc = "latex"
    /\ content' = generate_latex(qr_files, args.front_image, args.back_image)
    /\ files' = files \cup {tex_file}
    /\ pc' = "compile"
    /\ UNCHANGED <<args, cli_level, csv_lines, qr_fs, dir_made, notes, i,
                   qr_files, results, cur, levels_used, tools_run, notice,
                   warnings, pass_rc, compile_ok, moved, cleaned, exit_code>>

----------------------------------------------------------------------------
\* compile_latex, lines 234-250, one action per pdflatex run, and the end of
\* main, lines 332-345.

\* What a pdflatex run leaves in the output directory.
Produced(o) ==
    CASE o = "ok"    -> {pdf_path, aux_file, log_file}
      [] o = "fail"  -> {aux_file, log_file}
      [] o = "raise" -> {}

PassAbortsOnRaiseOnly(o) == o = "raise"

\* Lines 244-246 and 248-250: a pass ends compile_latex with False.
PassAborts(o) == o # "ok"

PdflatexPass ==
    /\ pc = "compile"
    /\ \E o \in Outcomes :
         /\ pass_rc' = Append(pass_rc, o)
         /\ files' = files \cup Produced(o)
         /\ IF PassAborts(o)
            THEN compile_ok' = FALSE /\ pc' = "finish"
            ELSE IF Len(pass_rc') = 2
                 THEN compile_ok' = TRUE /\ pc' = "finish"
                 ELSE pc' = "compile" /\ UNCHANGED compile_ok
    /\ tools_run' = tools_run \cup {"pdflatex"}
    /\ UNCHANGED <<args, cli_level, csv_lines, qr_fs, dir_made, notes, i,
                   qr_files, results, cur, levels_used, notice, warnings,
                   content, moved, cleaned, exit_code>>

Finish ==
    /\ pc = "finish"
    /\ IF compile_ok
       THEN /\ moved' = (pdf_path # args.output)
            /\ files' = ((files \ (IF pdf_path # args.output
                                   THEN {pdf_path} ELSE {}))
                         \cup {args.output}) \ {aux_file, log_file}
            /\ cleaned' = TRUE
            /\ Exit(0)
       ELSE /\ Exit(1)
            /\ UNCHANGED <<moved, files, cleaned>>
    /\ UNCHANGED <<args, cli_level, csv_lines, qr_fs, dir_made, notes, i,
                   qr_files, results, cur, levels_used, tools_run, notice,
                   warnings, content, pass_rc, compile_ok>>

----------------------------------------------------------------------------

Next ==
    \/ ParseArgs
    \/ CheckCsv
    \/ CheckIcon
    \/ CheckImages
    \/ Mkdir
    \/ ReadNotes
    \/ LoopNext
    \/ Qrencode
    \/ MagickTemp
    \/ MagickPlain
    \/ Identify
    \/ Overlay
    \/ QrReturn
    \/ CheckFiles
    \/ GenerateLatex
    \/ PdflatexPass
    \/ Finish

Spec == Init /\ [][Next]_vars

----------------------------------------------------------------------------
\* generate_latex on its own: any list of artifacts a run can hand to it
\* (the paths of the notes that succeeded, in input order).

RECURSIVE PathsOf(_, _)
PathsOf(S, n) ==
    IF n > MaxArtifacts THEN <<>>
    ELSE (IF n \in S THEN <<qr_path(n)>> ELSE <<>>) \o PathsOf(S, n + 1)

InitLatex ==
    /\ args \in [qr_icon : {NoIcon},
                 qr_error_correction : {"M"},
                 output : {pdf_path},
                 front_image : {"front.png", "front2.png"},
                 back_image : {"back.png"},
                 qr_dir : {"qr_codes"}]
    /\ cli_level = "M"
    /\ files = {csv_file}
    /\ csv_lines = <<>>
    /\ qr_fs = {}
    /\ dir_made = TRUE
    /\ pc = "latex"
    /\ notes = <<>>
    /\ i = 0
    /\ qr_files \in {PathsOf(S, 1) : S \in SUBSET (1..MaxArtifacts)}
    /\ results = <<>>
    /\ cur = NoCalls
    /\ levels_used = {}
    /\ tools_run = {}
    /\ notice = FALSE
    /\ warnings = {}
    /\ content = <<>>
    /\ pass_rc = <<>>
    /\ compile_ok = FALSE
    /\ moved = FALSE
    /\ cleaned = FALSE
    /\ exit_code = 0

NextLatex == GenerateLatex

SpecLatex == InitLatex /\ [][NextLatex]_vars

----------------------------------------------------------------------------
\* Helpers for the properties: reading the generated document back.

RECURSIVE DigitsValue(_)
DigitsValue(d) ==
    IF d = <<>> THEN 0
    ELSE DigitsValue(SubSeq(d, 1, Len(d) - 1)) * 10 + d[Len(d)]

\* 1-based positions of the notes whose generation returned True, ascending.
SucceededPositions ==
    SelectSeq([j \in 1..Len(results) |-> j], LAMBDA j : results[j])

\* ceil(n / d), stated without the code's rounding trick.
CeilDiv(n, d) == CHOOSE k \in 0..n : k * d >= n /\ (k - 1) * d < n

\* Indices of the page headers in the document, in order.
HeaderIdx ==
    SelectSeq([j \in 1..Len(content) |-> j], LAMBDA j : content[j].kind = "page")

\* Last index of the k-th page of the document.
PageEnd(k) ==
    IF k < Len(HeaderIdx) THEN HeaderIdx[k + 1] - 1 ELSE Len(content)

\* The image nodes of the k-th page, in order.
PageNodes(k) ==
    SelectSeq(SubSeq(content, HeaderIdx[k], PageEnd(k)),
              LAMBDA it : it.kind = "node")

AllOverlayNodes ==
    SelectSeq(content, LAMBDA it : it.kind = "node" /\ it.cmd = "overlayimage")

\* The generation loop has run to its end.
LoopFinished ==
    \/ pc \in {"check_files", "latex", "compile", "finish"}
    \/ pc = "done" /\ dir_made

IconRequested == args.qr_icon # ""

\* compile_latex has returned.
CompileReturned == pc \in {"finish", "done"} /\ pass_rc # <<>>

RenderFailed == \E k \in 1..Len(pass_rc) : pass_rc[k] # "ok"

----------------------------------------------------------------------------
\* C1: the list handed to the layout builder holds, in input order, exactly
\* the paths <qr_dir>/ecash_<i, four digits>.png of the 1-based positions i
\* whose generation succeeded; a failure neither reorders nor renumbers.
C1_ArtifactsFollowInputPositions ==
    LET succ == SucceededPositions
    IN  /\ Len(qr_files) = Len(succ)
        /\ \A k \in 1..Len(succ) :
             LET p == qr_files[k]
             IN  /\ p.dir = args.qr_dir
                 /\ p.name.prefix = "ecash_"
                 /\ p.name.ext = ".png"
                 /\ Len(p.name.digits) = 4
                 /\ \A d \in 1..4 : p.name.digits[d] \in 0..9
                 /\ DigitsValue(p.name.digits) = succ[k]

C1_Witness ==
    /\ pc = "latex"
    /\ \E j, k \in 1..Len(results) : j < k /\ ~results[j] /\ results[k]

\* C2: generate_latex emits ceil(n / 4) front/back page pairs, front and back
\* alternating, and no page without an entry (4 artifacts give one pair, 5
\* give two).
C2_PagePairsAreCeilOfCount ==
    content # <<>> =>
        LET n == Len(qr_files)
            h == HeaderIdx
        IN  /\ Len(h) = 2 * CeilDiv(n, 4)
            /\ \A k \in 1..Len(h) :
                 /\ content[h[k]].side = (IF k % 2 = 1 THEN "FRONT" ELSE "BACK")
                 /\ content[h[k]].num = k
                 /\ Len(PageNodes(k)) >= 1
            /\ (n = 4 => Len(h) = 2)
            /\ (n = 5 => Len(h) = 4)

C2_Witness ==
    /\ content # <<>>
    /\ Len(qr_files) = 4
    /\ Len(HeaderIdx) = 2

\* C3 (as claimed): a note for which qrencode or magick exited non-zero is
\* reported as failed and its path is not added to the list.
C3_AnyNonZeroExitDropsToken ==
    (cur.qr = "fail" \/ cur.magick = "fail" \/ cur.overlay = "fail") =>
        /\ (pc = "qr_return" => ~cur.ret)
        /\ (pc = "loop" => \A k \in 1..Len(qr_files) : qr_files[k] # qr_path(i))

\* C4: when every generation failed (or there was no note), the run ends
\* with exit code 1 right after the loop: no document, no pdflatex, no PDF.
C4_NoArtifactsIsFatal ==
    (LoopFinished /\ \A j \in 1..Len(results) : ~results[j]) =>
        /\ Len(results) = Len(notes)
        /\ pc \in {"check_files", "done"}
        /\ (pc = "done" => exit_code = 1)
        /\ content = <<>>
        /\ files \cap {tex_file, pdf_path, other_output} = {}
        /\ "pdflatex" \notin tools_run
        /\ pass_rc = <<>>

C4_Witness ==
    /\ pc = "done"
    /\ Len(results) >= 2
    /\ \A j \in 1..Len(results) : ~results[j]
    /\ exit_code = 1

C6_MissingInputStopsBeforeAnyWork ==
    csv_file \notin files =>
        /\ pc \in {"parse", "check_csv", "done"}
        /\ (pc = "done" => exit_code = 1)
        /\ ~dir_made
        /\ tools_run = {}
        /\ qr_fs = {}
        /\ content = <<>>
        /\ files \cap {tex_file, pdf_path, other_output, aux_file, log_file} = {}

C6_Witness ==
    /\ pc = "done"
    /\ csv_file \notin files
    /\ exit_code = 1

C8_TempFileGoneOnReturn ==
    (pc = "qr_return" /\ IconRequested /\ cur.magick = "ok") =>
        temp_qr(qr_path(i)) \notin qr_fs

\* C9, the part common to the claim and its amendment: passes run one after
\* the other, compile_latex reports success exactly when every pass it ran
\* exited zero and it ran both; the move and the .aux/.log removal happen only
\* then, and a failure ends the run with exit code 1 and no move.
C9_Common ==
    /\ Len(pass_rc) <= 2
    /\ (CompileReturned => (compile_ok <=> pass_rc = <<"ok", "ok">>))
    /\ ((moved \/ cleaned) => pass_rc = <<"ok", "ok">>)
    /\ (pc = "done" /\ pass_rc # <<>>) =>
          IF pass_rc = <<"ok", "ok">>
          THEN /\ exit_code = 0
               /\ args.output \in files
               /\ moved = (args.output # pdf_path)
               /\ files \cap {aux_file, log_file} = {}
          ELSE /\ exit_code = 1
               /\ ~moved
               /\ ~cleaned
               /\ other_output \notin files

\* C9 (as claimed): the renderer runs pdflatex exactly twice.
C9_ExactlyTwoPasses ==
    /\ C9_Common
    /\ (CompileReturned => Len(pass_rc) = 2)

\* C9 (amended): the renderer runs pdflatex at most twice; the second pass
\* runs only after a first pass that exited zero, and a failing first pass is
\* the only pass.
C9_SecondPassOnlyAfterGoodFirst ==
    /\ C9_Common
    /\ (CompileReturned =>
          /\ Len(pass_rc) \in 1..2
          /\ (Len(pass_rc) = 2 => pass_rc[1] = "ok")
          /\ (Len(pass_rc) = 1 => pass_rc[1] # "ok"))

C9_Witness ==
    /\ pc = "done"
    /\ pass_rc = <<"fail">>
    /\ exit_code = 1
    /\ ~moved

\* C10: front page k (from 0) carries exactly the artifacts at list indices
\* 4k .. min(4k+4, n)-1 in order, each artifact on exactly one front page;
\* back page k has as many images as front page k; every page has 1..4
\* entries and only the last pair may have fewer than 4; fronts are anchored
\* at the top-left corner, backs at the top-right corner.
C10_ConsecutiveGroupsOfFour ==
    content # <<>> =>
        LET n == Len(qr_files)
            pairs == Len(HeaderIdx) \div 2
        IN  /\ Len(HeaderIdx) = 2 * pairs
            /\ \A k \in 0..(pairs - 1) :
                 LET front == PageNodes(2 * k + 1)
                     back  == PageNodes(2 * k + 2)
                     lo    == 4 * k
                     hi    == IF 4 * k + 4 < n THEN 4 * k + 4 ELSE n
                 IN  /\ content[HeaderIdx[2 * k + 1]].side = "FRONT"
                     /\ content[HeaderIdx[2 * k + 2]].side = "BACK"
                     /\ Len(front) = hi - lo
                     /\ Len(front) \in 1..4
                     /\ (k < pairs - 1 => Len(front) = 4)
                     /\ \A j \in 1..Len(front) :
                          /\ front[j].cmd = "overlayimage"
                          /\ front[j].qr = qr_files[lo + j]
                          /\ front[j].anchor = "north west"
                          /\ front[j].shift = j - 1
                     /\ Len(back) = Len(front)
                     /\ \A j \in 1..Len(back) :
                          /\ back[j].cmd = "backimage"
                          /\ back[j].anchor = "north east"
                          /\ back[j].shift = j - 1
            /\ [j \in 1..Len(AllOverlayNodes) |-> AllOverlayNodes[j].qr] = qr_files

C10_Witness ==
    /\ content # <<>>
    /\ Len(qr_files) = 5
    /\ Len(HeaderIdx) = 4
    /\ Len(PageNodes(3)) = 1
    /\ Len(PageNodes(4)) = 1

====
